---- MODULE Spec2Model ----
(***************************************************************************)
(* A model of the elog logger (package elog): the Log record, its          *)
(* constructors New / Extend, its setters, the leveled print methods and   *)
(* the record assembler Out with the field formatters of out.go.           *)
(*                                                                         *)
(* Strings and byte buffers are sequences of one-byte strings, a flag set  *)
(* (an int bitmask in the code) is the set of the positions of its bits,   *)
(* and a []logOrder slice is a (backing array, length) pair over a heap of *)
(* arrays, so that two slices can share storage as they can in Go.         *)
(***************************************************************************)
EXTENDS Integers, Sequences, FiniteSets, TLC

VARIABLES
    level,      \* l.level   : the threshold of each logger
    flag,       \* l.flag    : the flag set of each logger
    prefix,     \* l.prefix
    name,       \* l.name
    output,     \* l.output  : the sinks the logger's writer fans out to
    order,      \* l.order   : slice header [arr, len] into heap
    heap,       \* backing arrays of the []logOrder slices
    buf,        \* l.buf     : the scratch buffer
    mu,         \* l.mu      : 0 when free, else the thread holding it
    made,       \* the loggers constructed so far
    opt,        \* the slice captured by the caller's reusable OOrder option
    sinks,      \* what each sink has received, one entry per Write call
    pc,         \* position of each thread inside its print call
    tl,         \* locals of each thread's print call
    clock,      \* the wall clock read by time.Now()
    exited,     \* os.Exit was called
    ops,        \* number of API calls made so far
    last        \* history: the last API call that completed, and its effect

vars == <<level, flag, prefix, name, output, order, heap, buf, mu, made, opt,
          sinks, pc, tl, clock, exited, ops, last>>

-----------------------------------------------------------------------------
(* Bounds of the model *)

MaxOrderLen == 2        \* longest order list given to OOrder / SetOrder
MaxItoaNum == 120       \* itoa is applied to every number up to this one
MaxOps == 3             \* API calls in one run of the sequential specification
MaxArrays == 4          \* backing arrays alive at once (parent, child, option, one new)
NThreads == 2           \* concurrent callers in the concurrent specification
LocalOffsetHours == 8   \* offset of the local time zone from UTC

-----------------------------------------------------------------------------
(* logger.go: levels, labels, colours, order names, flags *)

defaultCallDepth == 2

Discard == 0
TraceLevel == 1
DebugLevel == 2
InfoLevel == 3
WarnLevel == 4
ErrorLevel == 5
PanicLevel == 6
FatalLevel == 7

LeveledMethods == TraceLevel..FatalLevel

ESC == "\\x1b"

\* levelMap[level].levelLabel; a level without an entry yields the zero value ""
levelLabel(lv) ==
    CASE lv = FatalLevel -> <<"F", "A", "T", "A", "L">>
      [] lv = PanicLevel -> <<"P", "A", "N", "I", "C">>
      [] lv = ErrorLevel -> <<"E", "R", "R", "O", "R">>
      [] lv = WarnLevel  -> <<"W", "A", "R", "N", " ">>
      [] lv = InfoLevel  -> <<"I", "N", "F", "O", " ">>
      [] lv = DebugLevel -> <<"D", "E", "B", "U", "G">>
      [] lv = TraceLevel -> <<"T", "R", "A", "C", "E">>
      [] OTHER -> <<>>

\* "\x1b[1;3c;40m " with c the colour digit
colourEscape(c) == <<ESC, "[", "1", ";", "3", c, ";", "4", "0", "m", " ">>

\* levelMap[level].levelColor
levelColor(lv) ==
    CASE lv = FatalLevel -> colourEscape("5")
      [] lv = PanicLevel -> colourEscape("5")
      [] lv = ErrorLevel -> colourEscape("1")
      [] lv = WarnLevel  -> colourEscape("3")
      [] lv = InfoLevel  -> colourEscape("6")
      [] lv = DebugLevel -> colourEscape("4")
      [] lv = TraceLevel -> colourEscape("2")
      [] OTHER -> <<>>

\* " \x1b[0m "
color_ == <<" ", ESC, "[", "0", "m", " ">>

OrderDate == "Date"
OrderTime == "Time"
OrderLevel == "Level"
OrderPrefix == "Prefix"
OrderPath == "Path"
OrderMsg == "Message"

OrderNames == {OrderDate, OrderTime, OrderLevel, OrderPrefix, OrderPath, OrderMsg}

\* 1 << iota: a flag is the set of the positions of its bits
Ldate == {0}
Ltime == {1}
Lmicroseconds == {2}
LUTC == {3}
Llongfile == {4}
Lshortfile == {5}
Lmsgprefix == {6}
Lmsgcolor == {7}
Llevel == {8}
LlevelLabelColor == {9}
LstdFlags == Ldate \cup Ltime \cup Lshortfile \cup Llevel

AllFlagBits == Ldate \cup Ltime \cup Lmicroseconds \cup LUTC \cup Llongfile
               \cup Lshortfile \cup Lmsgprefix \cup Lmsgcolor \cup Llevel
               \cup LlevelLabelColor

\* a & b != 0
Has(a, b) == a \cap b # {}

-----------------------------------------------------------------------------
(* time.Time: an instant and a location *)

\* the instant read by time.Now(): date and clock in UTC, location Local
TimeAt(c) == [loc |-> "Local", year |-> 2022, month |-> 1, day |-> 25,
              hour |-> 7, min |-> 4, sec |-> c, nsec |-> 123456789]

\* t.UTC()
UTC(t) == [t EXCEPT !.loc = "UTC"]

\* t.Clock(): the hour is shown in the location of t
ClockHour(t) == IF t.loc = "UTC" THEN t.hour ELSE (t.hour + LocalOffsetHours) % 24

-----------------------------------------------------------------------------
(* out.go: helpers *)

DigitChars == <<"0", "1", "2", "3", "4", "5", "6", "7", "8", "9">>

IsDigit(c) == \E i \in 1..10 : DigitChars[i] = c

RECURSIVE itoaLoop(_, _, _)
itoaLoop(num, wid, b) ==
    IF num >= 10 \/ wid > 1
    THEN LET q == num \div 10
         IN itoaLoop(q, wid - 1, <<DigitChars[num - q * 10 + 1]>> \o b)
    ELSE <<DigitChars[num + 1]>> \o b

\* an itoa of fixed width: the last wid digits only, for a positive wid
itoaFixedWidth(b, num, wid) ==
    LET d == itoaLoop(num, wid, <<>>)
    IN b \o (IF wid > 0 THEN SubSeq(d, Len(d) - wid + 1, Len(d)) ELSE d)

\* itoa(&buf, num, wid)
itoa(b, num, wid) == b \o itoaLoop(num, wid, <<>>)

\* a separator appended whatever the buffer ends in
addSpaceAlways(b) ==
    IF Len(b) = 0 THEN [buf |-> b, fault |-> TRUE]
    ELSE [buf |-> Append(b, " "), fault |-> FALSE]

\* addSpace(&buf): b[len(b)-1] on an empty buffer is an index out of range
addSpace(b) ==
    IF Len(b) = 0 THEN [buf |-> b, fault |-> TRUE]
    ELSE IF b[Len(b)] # " " THEN [buf |-> Append(b, " "), fault |-> FALSE]
    ELSE [buf |-> b, fault |-> FALSE]

\* setColor(&buf, level)
setColor(b, lv) == b \o levelColor(lv)

\* unsetColor(&buf)
unsetColor(b) == b \o color_

\* subFlag(flag1, flag2): flag1 &^ flag2
subFlag(flag1, flag2) == flag1 \ flag2

\* setNewLine(&buf): the record ends in a line terminator
setNewLine(b) ==
    IF Len(b) = 0 \/ b[Len(b)] # "\n" THEN Append(b, "\n") ELSE b

RECURSIVE lastSlash(_, _)
\* for i := len(file) - 1; i > 0; i-- { if file[i] == '/' ... } with 0-based i;
\* the result is the 0-based index found, or 0 when the loop ends without one
lastSlash(file, i) ==
    IF i > 0
    THEN IF file[i + 1] = "/" THEN i ELSE lastSlash(file, i - 1)
    ELSE 0

\* the short form computed by outputPath
shortFile(file) ==
    LET i == lastSlash(file, Len(file) - 1)
    IN IF i > 0 THEN SubSeq(file, i + 2, Len(file)) ELSE file

-----------------------------------------------------------------------------
(* out.go: the field formatters.  A formatting pass is the record            *)
(*   buf         the scratch buffer                                          *)
(*   unwriteFlag the flags whose field is still to be written                *)
(*   msgWritten  the message was written                                     *)
(*   fault       a runtime fault (panic) ended the pass                      *)
(*   segs        history: which formatter appended which bytes of buf        *)

Seg(field, b0, b1) == [field |-> field, from |-> Len(b0) + 1, to |-> Len(b1)]

\* the common tail of a header formatter: separator, then clear the bits
endField(st, field, b, bits) ==
    LET r == addSpace(b)
    IN IF r.fault
       THEN [st EXCEPT !.buf = b, !.fault = TRUE]
       ELSE [st EXCEPT !.buf = r.buf,
                       !.unwriteFlag = subFlag(st.unwriteFlag, bits),
                       !.segs = Append(st.segs, Seg(field, st.buf, b))]

outputDate(st, t) ==
    IF st.fault \/ ~Has(st.unwriteFlag, Ldate) THEN st
    ELSE LET b1 == itoa(st.buf, t.year, 4)
             b2 == itoa(Append(b1, "/"), t.month, 2)
             b3 == itoa(Append(b2, "/"), t.day, 2)
         IN endField(st, OrderDate, b3, Ldate)

\* the time written only when Ltime itself is set
outputTimeNeedsLtime(st, t) ==
    IF st.fault \/ ~Has(st.unwriteFlag, Ltime) THEN st
    ELSE LET b1 == itoa(st.buf, ClockHour(t), 2)
             b2 == itoa(Append(b1, ":"), t.min, 2)
             b3 == itoa(Append(b2, ":"), t.sec, 2)
             b4 == IF Has(st.unwriteFlag, Lmicroseconds)
                   THEN itoa(Append(b3, "."), t.nsec \div 1000, 6)
                   ELSE b3
         IN endField(st, OrderTime, b4, Ltime \cup Lmicroseconds)

outputTime(st, t) ==
    IF st.fault \/ ~Has(st.unwriteFlag, Ltime \cup Lmicroseconds) THEN st
    ELSE LET b1 == itoa(st.buf, ClockHour(t), 2)
             b2 == itoa(Append(b1, ":"), t.min, 2)
             b3 == itoa(Append(b2, ":"), t.sec, 2)
             b4 == IF Has(st.unwriteFlag, Lmicroseconds)
                   THEN itoa(Append(b3, "."), t.nsec \div 1000, 6)
                   ELSE b3
         IN endField(st, OrderTime, b4, Ltime \cup Lmicroseconds)

\* the long form preferred when both path flags are set
outputPathLongWins(st, file, line) ==
    IF st.fault \/ ~Has(st.unwriteFlag, Lshortfile \cup Llongfile) THEN st
    ELSE LET f == IF Has(st.unwriteFlag, Llongfile) THEN file ELSE shortFile(file)
             b1 == itoa(Append(st.buf \o f, ":"), line, -1)
         IN endField(st, OrderPath, b1, Lshortfile \cup Llongfile)

outputPath(st, file, line) ==
    IF st.fault \/ ~Has(st.unwriteFlag, Lshortfile \cup Llongfile) THEN st
    ELSE LET f == IF Has(st.unwriteFlag, Lshortfile) THEN shortFile(file) ELSE file
             b1 == itoa(Append(st.buf \o f, ":"), line, -1)
         IN endField(st, OrderPath, b1, Lshortfile \cup Llongfile)

outputLevel(st, lv) ==
    IF st.fault \/ ~Has(st.unwriteFlag, Llevel) THEN st
    ELSE endField(st, OrderLevel, st.buf \o levelLabel(lv), Llevel)

outputPrefix(st, lprefix) ==
    IF st.fault \/ ~Has(st.unwriteFlag, Lmsgprefix) THEN st
    ELSE endField(st, OrderPrefix, st.buf \o lprefix, Lmsgprefix)

\* outputMsg(&msgWritten, level, msg): lflag is l.flag
outputMsg(st, lflag, lv, msg) ==
    IF st.fault \/ st.msgWritten THEN st
    ELSE LET b1 == IF Has(lflag, Lmsgcolor) THEN setColor(st.buf, lv) ELSE st.buf
             b2 == b1 \o msg
             b3 == IF Len(msg) = 0 \/ msg[Len(msg)] # "\n" THEN Append(b2, "\n") ELSE b2
             b4 == IF Has(lflag, Lmsgcolor) THEN unsetColor(b3) ELSE b3
         IN [st EXCEPT !.buf = b4, !.msgWritten = TRUE,
                       !.segs = Append(st.segs, Seg(OrderMsg, st.buf, b4))]

-----------------------------------------------------------------------------
(* elog.go: the Log record *)

Loggers == {"parent", "child"}
Threads == 1..NThreads
ArrIds == 1..MaxArrays
SinkIds == {"stderr", "b1", "b2", "b3", "bad"}

\* the writers whose Write returns an error
FailingSinks == {"bad"}

nilSlice == [arr |-> 0, len |-> 0]

\* the elements of a slice
Elems(h, s) == IF s.arr = 0 THEN <<>> ELSE SubSeq(h[s.arr], 1, s.len)

\* cap(s)
Cap(h, s) == IF s.arr = 0 THEN 0 ELSE Len(h[s.arr])

\* l.Order(), read through the heap
Order(l) == Elems(heap, order[l])

\* the arrays some slice still refers to
LiveArrays(ord, o) == {ord[l].arr : l \in Loggers} \cup {o.arr}

\* a fresh backing array: the first one nothing refers to
FreshArr(ord, o) == CHOOSE a \in ArrIds :
    /\ a \notin LiveArrays(ord, o)
    /\ \A b \in ArrIds : b \notin LiveArrays(ord, o) => a <= b

\* arrays nothing refers to are collected
Collect(h, ord, o) == [a \in ArrIds |-> IF a \in LiveArrays(ord, o) THEN h[a] ELSE <<>>]

-----------------------------------------------------------------------------
(* elog.go: Out *)

noCaller == [file |-> <<>>, line |-> 0]

\* "??? UNKNOWN FILE ???"
unknownFile == <<"?", "?", "?", " ", "U", "N", "K", "N", "O", "W", "N", " ",
                 "F", "I", "L", "E", " ", "?", "?", "?">>

\* _, file, line, ok = runtime.Caller(calldepth); if !ok { ... }
Caller(c) == IF c.ok THEN [file |-> c.file, line |-> c.line]
             ELSE [file |-> unknownFile, line |-> 0]

\* one case of the switch over an order entry
outputOrder(st, o, lflag, lprefix, lv, msg, file, line, t) ==
    CASE o = OrderDate   -> outputDate(st, t)
      [] o = OrderTime   -> outputTime(st, t)
      [] o = OrderLevel  -> outputLevel(st, lv)
      [] o = OrderPrefix -> outputPrefix(st, lprefix)
      [] o = OrderPath   -> outputPath(st, file, line)
      [] o = OrderMsg    -> outputMsg(st, lflag, lv, msg)
      [] OTHER -> st

RECURSIVE orderLoop(_, _, _, _, _, _, _, _, _, _)
\* for _, order := range l.order { switch order { ... } }
orderLoop(st, ord, i, lflag, lprefix, lv, msg, file, line, t) ==
    IF i > Len(ord) THEN st
    ELSE orderLoop(outputOrder(st, ord[i], lflag, lprefix, lv, msg, file, line, t),
                   ord, i + 1, lflag, lprefix, lv, msg, file, line, t)

\* the default pass with the prefix before the path
defaultPassPrefixFirst(st, lflag, lprefix, lv, msg, file, line, t) ==
    LET s1 == outputDate(st, t)
        s2 == outputTime(s1, t)
        s3 == outputLevel(s2, lv)
        s4 == outputPrefix(s3, lprefix)
        s5 == outputPath(s4, file, line)
    IN outputMsg(s5, lflag, lv, msg)

\* the default order: Date Time Level Path Prefix Message
defaultPass(st, lflag, lprefix, lv, msg, file, line, t) ==
    LET s1 == outputDate(st, t)
        s2 == outputTime(s1, t)
        s3 == outputLevel(s2, lv)
        s4 == outputPath(s3, file, line)
        s5 == outputPrefix(s4, lprefix)
    IN outputMsg(s5, lflag, lv, msg)

\* l.buf = l.buf[:0]; unwriteFlag = l.flag; msgWritten = false
passStart(lflag) == [buf |-> <<>>, unwriteFlag |-> lflag, msgWritten |-> FALSE,
                     fault |-> FALSE, segs |-> <<>>]

\* Out from the buffer reset to the call of Write: the formatting pass
formatPass(lflag, lorder, lprefix, lv, msg, file, line, t) ==
    LET st0 == passStart(lflag)
        st1 == orderLoop(st0, lorder, 1, lflag, lprefix, lv, msg, file, line, t)
        st2 == defaultPass(st1, lflag, lprefix, lv, msg, file, line, t)
    IN IF st2.fault THEN st2 ELSE [st2 EXCEPT !.buf = setNewLine(st2.buf)]

\* the time Out formats: now.UTC() when LUTC is set
outTime(lflag, t) == IF Has(lflag, LUTC) THEN UTC(t) ELSE t

\* Out resolves the caller only when a path flag is set
wantsCaller(lflag) == Has(lflag, Lshortfile \cup Llongfile)

\* a writer that hands buf to its first sink only
WriteFirstOnly(sk, out, i, b) ==
    IF Len(out) = 0 THEN sk ELSE [sk EXCEPT ![out[1]] = Append(@, b)]

\* l.output.Write(buf): the writer hands buf to each of its sinks in turn and
\* stops at the first one whose Write returns an error
RECURSIVE Write(_, _, _, _)
Write(sk, out, i, b) ==
    IF i > Len(out) THEN sk
    ELSE LET sk1 == [sk EXCEPT ![out[i]] = Append(@, b)]
         IN IF out[i] \in FailingSinks THEN sk1 ELSE Write(sk1, out, i + 1, b)

\* an Out that returns nil whatever Write returned
writeErrNever(out) == FALSE

\* _, err := l.output.Write(l.buf): err != nil
writeErr(out) == \E i \in 1..Len(out) : out[i] \in FailingSinks

\* the value a runtime fault of the formatting pass panics with
indexOutOfRange == <<"index out of range">>

noCall == [op |-> "none", l |-> "parent", lv |-> 0, msg |-> <<>>, flag |-> {},
           order |-> <<>>, prefix |-> <<>>, file |-> <<>>, line |-> 0,
           now |-> TimeAt(0), segs |-> <<>>, bytes |-> <<>>, called |-> FALSE,
           wrote |-> FALSE, fault |-> FALSE, thresh |-> 0, panicked |-> FALSE,
           arg |-> <<>>, err |-> FALSE, pval |-> <<>>]

\* Out(calldepth, level, msg) by a single caller, from time.Now() to the return
Out(l, lv, msg, c, opname) ==
    LET t == outTime(flag[l], TimeAt(clock))
        cl == IF wantsCaller(flag[l]) THEN Caller(c) ELSE noCaller
        st == formatPass(flag[l], Order(l), prefix[l], lv, msg, cl.file, cl.line, t)
    IN /\ buf' = [buf EXCEPT ![l] = st.buf]
       /\ sinks' = IF st.fault THEN sinks ELSE Write(sinks, output[l], 1, st.buf)
       /\ last' = [noCall EXCEPT !.op = opname, !.l = l, !.lv = lv, !.msg = msg,
                     !.flag = flag[l], !.order = Order(l), !.prefix = prefix[l],
                     !.file = cl.file, !.line = cl.line, !.now = t,
                     !.segs = st.segs, !.bytes = st.buf, !.called = TRUE,
                     !.wrote = ~st.fault, !.fault = st.fault,
                     !.thresh = level[l],
                     !.err = ~st.fault /\ writeErr(output[l]),
                     !.panicked = st.fault \/ (opname = "Print" /\ lv = PanicLevel),
                     !.pval = IF st.fault THEN indexOutOfRange
                              ELSE IF opname = "Print" /\ lv = PanicLevel THEN msg
                              ELSE <<>>]

-----------------------------------------------------------------------------
(* Inputs *)

\* "m"
msgM == <<"m">>

\* "P", the non-empty prefix
prefixP == <<"P">>

\* "P ", a prefix that ends in a space
prefixSp == <<"P", " ">>

PrefixInputs == {<<>>, prefixP, prefixSp}

\* "/a/b.go", line 12: what runtime.Caller reports
callerAB == [ok |-> TRUE, file |-> <<"/", "a", "/", "b", ".", "g", "o">>, line |-> 12]

CallerInputs == {callerAB}

\* the order lists of at most MaxOrderLen entries
OrderLists == UNION {[1..n -> OrderNames] : n \in 0..MaxOrderLen}

\* the flag bits that switch a header field on
HeaderBits == Ldate \cup Ltime \cup Lmicroseconds \cup Llongfile \cup Lshortfile
              \cup Lmsgprefix \cup Llevel

\* every set of header bits, alone or with all the other bits
FmtFlags == {h \cup x : h \in SUBSET HeaderBits, x \in {{}, AllFlagBits \ HeaderBits}}

-----------------------------------------------------------------------------
(* elog.go: New and the options *)

\* the zero value of Log, for every logger not constructed yet
zeroLevel == [l \in Loggers |-> Discard]
zeroFlag == [l \in Loggers |-> {}]
zeroStr == [l \in Loggers |-> <<>>]
zeroOrder == [l \in Loggers |-> nilSlice]
zeroMu == [l \in Loggers |-> 0]
emptyHeap == [a \in ArrIds |-> <<>>]
emptySinks == [s \in SinkIds |-> <<>>]

\* the slice a call OOrder(o...) captures: a new array holding o, nil for no entry
optSlice(o) == IF Len(o) = 0 THEN nilSlice ELSE [arr |-> 1, len |-> Len(o)]

\* io.MultiWriter(append(w, w1)...), with os.Stderr for a nil w1
multiWriter(w1, w) == w \o <<IF w1 = "nil" THEN "stderr" ELSE w1>>

\* the option OOutput(w1, w...) applied to a logger whose writer fans out to
\* out, <<>> for a nil writer: the new sinks, then the writer the logger had
OOutput(out, w1, w) == multiWriter(w1, w) \o out

RECURSIVE applyOutputs(_, _)
\* for _, opt := range options { opt(l) }, for the OOutput options
applyOutputs(out, opts) ==
    IF opts = <<>> THEN out
    ELSE applyOutputs(OOutput(out, Head(opts).w1, Head(opts).w), Tail(opts))

\* if l.output == nil { l.output = os.Stderr }
defaultOutput(out) == IF out = <<>> THEN <<"stderr">> ELSE out

\* the option OOutput(&b1)
optB1 == [w1 |-> "b1", w |-> <<>>]

\* parent := New(lv, outs..., OFlag(f), OPrefix(p), OName(n), OOrder(o...)),
\* outs being OOutput options
NewWith(lv, f, p, n, o, outs) ==
    /\ level = [zeroLevel EXCEPT !["parent"] = lv]
    /\ flag = [zeroFlag EXCEPT !["parent"] = f]
    /\ prefix = [zeroStr EXCEPT !["parent"] = p]
    /\ name = [zeroStr EXCEPT !["parent"] = n]
    /\ output = [zeroStr EXCEPT !["parent"] = defaultOutput(applyOutputs(<<>>, outs))]
    /\ opt = optSlice(o)
    /\ order = [zeroOrder EXCEPT !["parent"] = optSlice(o)]
    /\ heap = IF Len(o) = 0 THEN emptyHeap ELSE [emptyHeap EXCEPT ![1] = o]
    /\ buf = zeroStr
    /\ mu = zeroMu
    /\ made = {"parent"}

\* parent := New(lv, OOutput(&b1), OFlag(f), OPrefix(p), OName(n), OOrder(o...))
New(lv, f, p, n, o) == NewWith(lv, f, p, n, o, <<optB1>>)

\* no thread is inside a call
idle == [t \in Threads |-> "idle"]
noLocals == [t \in Threads |-> [lv |-> 0, msg |-> <<>>, now |-> TimeAt(0),
                                file |-> <<>>, line |-> 0, st |-> passStart({})]]

InitRest ==
    /\ sinks = emptySinks
    /\ pc = idle
    /\ tl = noLocals
    /\ clock = 0
    /\ exited = FALSE
    /\ ops = 0
    /\ last = noCall

-----------------------------------------------------------------------------
(* SpecFmt: one Out call on a logger of any flag set, order list and prefix *)

InitFmt ==
    /\ \E f \in FmtFlags, p \in PrefixInputs, o \in OrderLists :
          New(InfoLevel, f, p, <<>>, o)
    /\ InitRest

OutFmt ==
    /\ ops = 0
    /\ \E c \in CallerInputs : Out("parent", WarnLevel, msgM, c, "Out")
    /\ ops' = ops + 1
    /\ UNCHANGED <<level, flag, prefix, name, output, order, heap, mu, made, opt,
                   pc, tl, clock, exited>>

NextFmt == OutFmt

SpecFmt == InitFmt /\ [][NextFmt]_vars

-----------------------------------------------------------------------------
(* elog.go: the setters, Extend and the leveled print methods, each called   *)
(* by a single caller and modelled from its Lock to its return               *)

\* a lock that never waits
CanLockNoWait(l) == TRUE

\* l.mu.Lock() returns: no other call holds the lock
CanLock(l) == mu[l] = 0

\* an API call can be made: the process runs and the run is not over
MayCall(l) == ~exited /\ ops < MaxOps /\ l \in made

\* a call of a single caller runs from its Lock to its return in one step
CanCall(l) == MayCall(l) /\ CanLock(l)

\* the history entry of a call that is not a print
Did(opname, l, arg) == [noCall EXCEPT !.op = opname, !.l = l, !.arg = arg]

SetLevel(l, lv) ==
    /\ CanCall(l)
    /\ level' = [level EXCEPT ![l] = lv]
    /\ last' = Did("SetLevel", l, <<lv>>)
    /\ ops' = ops + 1
    /\ UNCHANGED <<flag, prefix, name, output, order, heap, buf, mu, made, opt,
                   sinks, pc, tl, clock, exited>>

SetName(l, n) ==
    /\ CanCall(l)
    /\ name' = [name EXCEPT ![l] = n]
    /\ last' = Did("SetName", l, n)
    /\ ops' = ops + 1
    /\ UNCHANGED <<level, flag, prefix, output, order, heap, buf, mu, made, opt,
                   sinks, pc, tl, clock, exited>>

SetPrefix(l, p) ==
    /\ CanCall(l)
    /\ prefix' = [prefix EXCEPT ![l] = p]
    /\ last' = Did("SetPrefix", l, p)
    /\ ops' = ops + 1
    /\ UNCHANGED <<level, flag, name, output, order, heap, buf, mu, made, opt,
                   sinks, pc, tl, clock, exited>>

SetFlag(l, f) ==
    /\ CanCall(l)
    /\ flag' = [flag EXCEPT ![l] = f]
    /\ last' = Did("SetFlag", l, <<f>>)
    /\ ops' = ops + 1
    /\ UNCHANGED <<level, prefix, name, output, order, heap, buf, mu, made, opt,
                   sinks, pc, tl, clock, exited>>

\* l.flag = l.flag | flag
AddFlag(l, f) ==
    /\ CanCall(l)
    /\ flag' = [flag EXCEPT ![l] = @ \cup f]
    /\ last' = Did("AddFlag", l, <<f>>)
    /\ ops' = ops + 1
    /\ UNCHANGED <<level, prefix, name, output, order, heap, buf, mu, made, opt,
                   sinks, pc, tl, clock, exited>>

\* l.flag = l.flag &^ flag
SubFlag(l, f) ==
    /\ CanCall(l)
    /\ flag' = [flag EXCEPT ![l] = @ \ f]
    /\ last' = Did("SubFlag", l, <<f>>)
    /\ ops' = ops + 1
    /\ UNCHANGED <<level, prefix, name, output, order, heap, buf, mu, made, opt,
                   sinks, pc, tl, clock, exited>>

SetOutput(l, w1, w) ==
    /\ CanCall(l)
    /\ output' = [output EXCEPT ![l] = multiWriter(w1, w)]
    /\ last' = Did("SetOutput", l, <<w1>> \o w)
    /\ ops' = ops + 1
    /\ UNCHANGED <<level, flag, prefix, name, order, heap, buf, mu, made, opt,
                   sinks, pc, tl, clock, exited>>

\* the slice kept at its length, so that append adds to the old entries
keepOrder(s) == s

\* l.order[:0]
resetOrder(s) == [s EXCEPT !.len = 0]

\* the capacity append grows a full array of capacity old to, to hold need entries
newCap(old, need) == IF need > 2 * old THEN need ELSE 2 * old

\* n zero values of logOrder
Zeros(n) == [i \in 1..n |-> ""]

\* append(s, o...): in place while the backing array has room, else into the
\* new array fresh
appendOrder(h, s, o, fresh) ==
    IF Len(o) = 0 THEN [heap |-> h, slice |-> s]
    ELSE IF s.len + Len(o) <= Cap(h, s)
    THEN [heap |-> [h EXCEPT ![s.arr] =
                       SubSeq(@, 1, s.len) \o o \o SubSeq(@, s.len + Len(o) + 1, Len(@))],
          slice |-> [s EXCEPT !.len = s.len + Len(o)]]
    ELSE LET need == s.len + Len(o)
             cap == newCap(Cap(h, s), need)
         IN [heap |-> [h EXCEPT ![fresh] = Elems(h, s) \o o \o Zeros(cap - need)],
             slice |-> [arr |-> fresh, len |-> need]]

SetOrder(l, o) ==
    /\ CanCall(l)
    /\ LET r == appendOrder(heap, resetOrder(order[l]), o, FreshArr(order, opt))
           ord == [order EXCEPT ![l] = r.slice]
       IN /\ order' = ord
          /\ heap' = Collect(r.heap, ord, opt)
    /\ last' = Did("SetOrder", l, o)
    /\ ops' = ops + 1
    /\ UNCHANGED <<level, flag, prefix, name, output, buf, mu, made, opt,
                   sinks, pc, tl, clock, exited>>

\* son.order = make([]logOrder, len(parent.order)); copy(son.order, parent.order)
copyOrder(h, s, fresh) ==
    IF s.len = 0 THEN [heap |-> h, slice |-> nilSlice]
    ELSE [heap |-> [h EXCEPT ![fresh] = Elems(h, s)],
          slice |-> [arr |-> fresh, len |-> s.len]]

\* child := parent.Extend(), or parent.Extend(o) with o the caller's OOrder
\* option when withOpt.  Extend assigns output, level, flag, prefix and order of
\* the son; its name, buffer and lock stay the zero values of new(Log).
Extend(parent, withOpt) ==
    /\ CanCall(parent)
    /\ "child" \notin made
    /\ made' = made \cup {"child"}
    /\ output' = [output EXCEPT !["child"] = output[parent]]
    /\ level' = [level EXCEPT !["child"] = level[parent]]
    /\ flag' = [flag EXCEPT !["child"] = flag[parent]]
    /\ prefix' = [prefix EXCEPT !["child"] = prefix[parent]]
    /\ LET r == copyOrder(heap, order[parent], FreshArr(order, opt))
           ord == [order EXCEPT !["child"] = IF withOpt THEN opt ELSE r.slice]
       IN /\ order' = ord
          /\ heap' = Collect(r.heap, ord, opt)
    /\ last' = Did("Extend", parent, <<withOpt>>)
    /\ ops' = ops + 1
    /\ UNCHANGED <<name, buf, mu, opt, sinks, pc, tl, clock, exited>>

\* child := parent.Extend(OOutput(w1, w...)): the option is applied to the son
\* after the copy of the parent's fields
ExtendOutput(parent, w1, w) ==
    /\ CanCall(parent)
    /\ "child" \notin made
    /\ made' = made \cup {"child"}
    /\ output' = [output EXCEPT !["child"] = OOutput(output[parent], w1, w)]
    /\ level' = [level EXCEPT !["child"] = level[parent]]
    /\ flag' = [flag EXCEPT !["child"] = flag[parent]]
    /\ prefix' = [prefix EXCEPT !["child"] = prefix[parent]]
    /\ LET r == copyOrder(heap, order[parent], FreshArr(order, opt))
           ord == [order EXCEPT !["child"] = r.slice]
       IN /\ order' = ord
          /\ heap' = Collect(r.heap, ord, opt)
    /\ last' = Did("ExtendOutput", parent, <<w1>> \o w)
    /\ ops' = ops + 1
    /\ UNCHANGED <<name, buf, mu, opt, sinks, pc, tl, clock, exited>>

\* fmt.Sprintln(v...) ends the text with a newline, fmt.Sprintf(format, v...) does not
render(form, text) == IF form = "ln" THEN Append(text, "\n") ELSE text

\* the comparison the other way round: if l.level >= XLevel
passesReversed(thresh, lv) == thresh >= lv

\* if l.level <= XLevel
passes(thresh, lv) == thresh <= lv

\* a Fatal that returns to its caller
osExitNever(lv) == FALSE

\* os.Exit(1) follows the return of Out in Fatal and Fatalf only
osExit(lv) == lv = FatalLevel

\* l.Fatal/Panic/Error/Warn/Info/Debug/Trace (form "ln") and their f variants
\* (form "f"), lv being the level of the method
LevelPrint(l, lv, form, text, c) ==
    /\ CanCall(l)
    /\ IF passes(level[l], lv)
       THEN /\ Out(l, lv, render(form, text), c, "Print")
            /\ exited' = (osExit(lv) /\ ~last'.fault)
            /\ clock' = clock + 1
       ELSE /\ last' = [noCall EXCEPT !.op = "Print", !.l = l, !.lv = lv,
                          !.msg = render(form, text), !.thresh = level[l]]
            /\ UNCHANGED <<buf, sinks, exited, clock>>
    /\ ops' = ops + 1
    /\ UNCHANGED <<level, flag, prefix, name, output, order, heap, mu, made, opt,
                   pc, tl>>

-----------------------------------------------------------------------------
(* Spec: a parent logger, its setters, Extend and prints by a single caller *)

\* "G"
nameG == <<"G">>

AllLevels == Discard..FatalLevel

\* the order lists the sequential specification draws from: of every length up
\* to MaxOrderLen + 1, so that a list is replaced by a longer and by a shorter one
CfgOrders == {SubSeq(<<OrderMsg, OrderLevel, OrderDate, OrderTime>>, 1, n) :
                 n \in 0..(MaxOrderLen + 1)}

Init ==
    /\ \E n \in {<<>>, nameG}, o \in {<<>>, <<OrderDate, OrderLevel>>} :
          New(InfoLevel, Llevel \cup Ldate, prefixP, n, o)
    /\ InitRest

Next ==
    \/ \E l \in Loggers : SetLevel(l, ErrorLevel)
    \/ \E l \in Loggers : SetName(l, <<"N">>)
    \/ \E l \in Loggers : SetPrefix(l, <<"Q">>)
    \/ \E l \in Loggers : SetFlag(l, Ltime)
    \/ \E l \in Loggers : AddFlag(l, Lmicroseconds)
    \/ \E l \in Loggers : SubFlag(l, Ldate)
    \/ \E l \in Loggers : SetOutput(l, "b2", <<>>)
    \/ \E l \in Loggers, o \in CfgOrders : SetOrder(l, o)
    \/ \E w \in BOOLEAN : Extend("parent", w)
    \/ \E l \in Loggers, c \in CallerInputs : LevelPrint(l, WarnLevel, "ln", msgM, c)

Spec == Init /\ [][Next]_vars

-----------------------------------------------------------------------------
(* SpecLevel: every threshold against every leveled method *)

InitLevel ==
    /\ \E lv \in AllLevels, f \in {{}, LstdFlags} : New(lv, f, <<>>, <<>>, <<>>)
    /\ InitRest

NextLevel ==
    \/ \E lv \in AllLevels : SetLevel("parent", lv)
    \/ \E lv \in LeveledMethods, form \in {"ln", "f"}, c \in CallerInputs :
          LevelPrint("parent", lv, form, msgM, c)
    \/ \E w1 \in {"b1", "bad"} : SetOutput("parent", w1, <<>>)

SpecLevel == InitLevel /\ [][NextLevel]_vars

-----------------------------------------------------------------------------
(* SpecConc: leveled print calls of several threads on the parent logger,    *)
(* interleaved at every lock operation and at every step that reads or       *)
(* writes the scratch buffer, with SetFlag calls in between                  *)

\* the text thread t prints: "m1", "m2", ...
ThreadMsg(t) == <<"m", DigitChars[t + 1]>>

\* the history entry of the print call of thread t at its end
CallOf(t, wrote) ==
    [noCall EXCEPT !.op = "Print", !.l = "parent", !.lv = tl[t].lv, !.msg = tl[t].msg,
                   !.flag = flag["parent"], !.order = Order("parent"),
                   !.prefix = prefix["parent"], !.file = tl[t].file,
                   !.line = tl[t].line, !.now = tl[t].now, !.segs = tl[t].st.segs,
                   !.bytes = buf["parent"], !.called = TRUE, !.wrote = wrote,
                   !.fault = ~wrote, !.thresh = level["parent"],
                   !.err = wrote /\ writeErr(output["parent"]),
                   !.panicked = ~wrote \/ tl[t].lv = PanicLevel,
                   !.pval = IF ~wrote THEN indexOutOfRange
                            ELSE IF tl[t].lv = PanicLevel THEN tl[t].msg ELSE <<>>,
                   !.arg = <<t>>]

\* the leveled method tests the threshold, Out reads the clock: now := time.Now()
Begin(t, lv) ==
    /\ pc[t] = "idle"
    /\ MayCall("parent")
    /\ passes(level["parent"], lv)
    /\ tl' = [tl EXCEPT ![t] = [lv |-> lv, msg |-> render("ln", ThreadMsg(t)),
                                now |-> TimeAt(clock), file |-> <<>>, line |-> 0,
                                st |-> passStart({})]]
    /\ clock' = clock + 1
    /\ ops' = ops + 1
    /\ pc' = [pc EXCEPT ![t] = "lock"]
    /\ UNCHANGED <<level, flag, prefix, name, output, order, heap, buf, mu, made,
                   opt, sinks, exited, last>>

\* l.mu.Lock(); the LUTC test; and, with a path flag set, l.mu.Unlock()
Lock(t) ==
    /\ pc[t] = "lock"
    /\ ~exited
    /\ CanLock("parent")
    /\ tl' = [tl EXCEPT ![t].now = outTime(flag["parent"], @)]
    /\ IF wantsCaller(flag["parent"])
       THEN /\ mu' = [mu EXCEPT !["parent"] = 0]
            /\ pc' = [pc EXCEPT ![t] = "caller"]
       ELSE /\ mu' = [mu EXCEPT !["parent"] = t]
            /\ pc' = [pc EXCEPT ![t] = "reset"]
    /\ UNCHANGED <<level, flag, prefix, name, output, order, heap, buf, made, opt,
                   sinks, clock, exited, ops, last>>

\* runtime.Caller(calldepth), with the lock released
ResolveCaller(t, c) ==
    /\ pc[t] = "caller"
    /\ ~exited
    /\ tl' = [tl EXCEPT ![t].file = Caller(c).file, ![t].line = Caller(c).line]
    /\ pc' = [pc EXCEPT ![t] = "relock"]
    /\ UNCHANGED <<level, flag, prefix, name, output, order, heap, buf, mu, made,
                   opt, sinks, clock, exited, ops, last>>

\* l.mu.Lock() after the caller resolution
Relock(t) ==
    /\ pc[t] = "relock"
    /\ ~exited
    /\ CanLock("parent")
    /\ mu' = [mu EXCEPT !["parent"] = t]
    /\ pc' = [pc EXCEPT ![t] = "reset"]
    /\ UNCHANGED <<level, flag, prefix, name, output, order, heap, buf, made, opt,
                   sinks, tl, clock, exited, ops, last>>

\* l.buf = l.buf[:0] and the locals of the pass
ResetBuf(t) ==
    /\ pc[t] = "reset"
    /\ ~exited
    /\ buf' = [buf EXCEPT !["parent"] = <<>>]
    /\ tl' = [tl EXCEPT ![t].st = passStart(flag["parent"])]
    /\ pc' = [pc EXCEPT ![t] = "order"]
    /\ UNCHANGED <<level, flag, prefix, name, output, order, heap, mu, made, opt,
                   sinks, clock, exited, ops, last>>

\* a step of the pass took the buffer from l.buf and left st in it; a fault
\* unwinds the call through the deferred Unlock
PassStep(t, st, next) ==
    /\ buf' = [buf EXCEPT !["parent"] = st.buf]
    /\ tl' = [tl EXCEPT ![t].st = st]
    /\ IF st.fault
       THEN /\ pc' = [pc EXCEPT ![t] = "idle"]
            /\ mu' = [mu EXCEPT !["parent"] = 0]
            /\ last' = [CallOf(t, FALSE) EXCEPT !.segs = st.segs, !.bytes = st.buf]
       ELSE /\ pc' = [pc EXCEPT ![t] = next]
            /\ UNCHANGED <<mu, last>>
    /\ UNCHANGED <<level, flag, prefix, name, output, order, heap, made, opt,
                   sinks, clock, exited, ops>>

\* the loop over l.order
FormatOrder(t) ==
    /\ pc[t] = "order"
    /\ ~exited
    /\ PassStep(t, orderLoop([tl[t].st EXCEPT !.buf = buf["parent"]], Order("parent"), 1,
                             flag["parent"], prefix["parent"], tl[t].lv, tl[t].msg,
                             tl[t].file, tl[t].line, tl[t].now),
                "default")

\* the formatters in the default order, and setNewLine
FormatDefault(t) ==
    /\ pc[t] = "default"
    /\ ~exited
    /\ LET st == defaultPass([tl[t].st EXCEPT !.buf = buf["parent"]],
                             flag["parent"], prefix["parent"], tl[t].lv, tl[t].msg,
                             tl[t].file, tl[t].line, tl[t].now)
       IN PassStep(t, IF st.fault THEN st ELSE [st EXCEPT !.buf = setNewLine(st.buf)],
                   "write")

\* l.output.Write(l.buf), the deferred Unlock, and the end of the leveled method
WriteBuf(t) ==
    /\ pc[t] = "write"
    /\ ~exited
    /\ sinks' = Write(sinks, output["parent"], 1, buf["parent"])
    /\ last' = CallOf(t, TRUE)
    /\ mu' = [mu EXCEPT !["parent"] = 0]
    /\ pc' = [pc EXCEPT ![t] = "idle"]
    /\ exited' = osExit(tl[t].lv)
    /\ UNCHANGED <<level, flag, prefix, name, output, order, heap, buf, made, opt,
                   tl, clock, ops>>

InitConc ==
    /\ \E f \in {Llevel, Llevel \cup Lshortfile}, o \in {<<>>, <<OrderMsg, OrderLevel>>} :
          New(InfoLevel, f, prefixP, <<>>, o)
    /\ InitRest

NextConc ==
    \/ \E t \in Threads, lv \in {InfoLevel, ErrorLevel} : Begin(t, lv)
    \/ \E t \in Threads : Lock(t)
    \/ \E t \in Threads, c \in CallerInputs : ResolveCaller(t, c)
    \/ \E t \in Threads : Relock(t)
    \/ \E t \in Threads : ResetBuf(t)
    \/ \E t \in Threads : FormatOrder(t)
    \/ \E t \in Threads : FormatDefault(t)
    \/ \E t \in Threads : WriteBuf(t)
    \/ \E f \in {Llevel, Llevel \cup Llongfile \cup Lmsgprefix} : SetFlag("parent", f)

SpecConc == InitConc /\ [][NextConc]_vars

-----------------------------------------------------------------------------
(* Vocabulary of the properties *)

HeaderFields == {OrderDate, OrderTime, OrderLevel, OrderPath, OrderPrefix}

\* the flag bits that govern a header field
FieldBits(fld) ==
    CASE fld = OrderDate   -> Ldate
      [] fld = OrderTime   -> Ltime \cup Lmicroseconds
      [] fld = OrderLevel  -> Llevel
      [] fld = OrderPath   -> Lshortfile \cup Llongfile
      [] fld = OrderPrefix -> Lmsgprefix
      [] OTHER -> {}

\* the field is enabled by the flag set; the message always is
Enabled(f, fld) == fld = OrderMsg \/ Has(f, FieldBits(fld))

\* the segments of the record a call handed to the sink: none when it wrote nothing
Emitted(c) == IF c.wrote THEN c.segs ELSE <<>>

Count(segs, fld) == Cardinality({i \in 1..Len(segs) : segs[i].field = fld})

FieldSeq(segs) == [i \in 1..Len(segs) |-> segs[i].field]

\* the bytes of a segment
Text(c, sg) == SubSeq(c.bytes, sg.from, sg.to)

\* the segment of a field that was emitted exactly once
TheSeg(segs, fld) == segs[CHOOSE i \in 1..Len(segs) : segs[i].field = fld]

RECURSIVE Select(_, _, _)
\* the entries of s whose first occurrence it is and that are enabled by f
Select(s, f, seen) ==
    IF s = <<>> THEN <<>>
    ELSE IF Head(s) \in seen \/ ~Enabled(f, Head(s))
         THEN Select(Tail(s), f, seen)
         ELSE <<Head(s)>> \o Select(Tail(s), f, seen \cup {Head(s)})

DefaultSequence == <<OrderDate, OrderTime, OrderLevel, OrderPath, OrderPrefix, OrderMsg>>

Range(s) == {s[i] : i \in 1..Len(s)}

\* the layout the order list o asks for under the flag set f
Layout(f, o) == Select(o, f, {}) \o Select(DefaultSequence, f, Range(o))

\* the segments lie in the record one after the other, each followed by
\* at least nothing and never overlapping the next
InSequence(segs) ==
    \A i \in 1..Len(segs) :
        /\ segs[i].from <= segs[i].to + 1
        /\ i < Len(segs) => segs[i].to < segs[i + 1].from

IsPrefix(s, t) == Len(s) <= Len(t) /\ SubSeq(t, 1, Len(s)) = s

-----------------------------------------------------------------------------
(* C1 *)

\* C1: for every flag set and every order list, one Out call emits each enabled
\* header field exactly once and the message exactly once, and emits no header
\* field whose flag is off.
C1_EachEnabledFieldOnce ==
    last.called =>
        /\ \A fld \in HeaderFields :
              Count(Emitted(last), fld) = IF Enabled(last.flag, fld) THEN 1 ELSE 0
        /\ Count(Emitted(last), OrderMsg) = 1

-----------------------------------------------------------------------------
(* C2 *)

\* C2: in one Out call the enabled fields named in the order list come first, in
\* the order of their first occurrence in the list, and every enabled field the
\* list does not name comes after all of them in the default sequence date, time,
\* level, path, prefix, message; the bytes of the fields lie in the record in
\* that order.  A call ended by a fault has formatted a beginning of this layout.
C2_LayoutFollowsOrder ==
    last.called =>
        /\ InSequence(last.segs)
        /\ \A i \in 1..Len(last.segs) : last.segs[i].to <= Len(last.bytes)
        /\ last.wrote => FieldSeq(last.segs) = Layout(last.flag, last.order)
        /\ last.fault => IsPrefix(FieldSeq(last.segs), Layout(last.flag, last.order))

\* a record whose order list names the path before the date (the path possibly
\* a second time), while the level is enabled and not named
C2_Witness ==
    /\ last.wrote
    /\ last.order = <<OrderPath, OrderDate, OrderPath>>
       \/ last.order = <<OrderPath, OrderDate>>
    /\ FieldSeq(last.segs) = <<OrderPath, OrderDate, OrderLevel, OrderMsg>>

-----------------------------------------------------------------------------
(* C9 *)

\* HH:MM:SS
IsClock(s) ==
    /\ Len(s) = 8
    /\ s[3] = ":" /\ s[6] = ":"
    /\ \A i \in {1, 2, 4, 5, 7, 8} : IsDigit(s[i])

\* .NNNNNN
IsMicro(s) ==
    /\ Len(s) = 7
    /\ s[1] = "."
    /\ \A i \in 2..7 : IsDigit(s[i])

\* C9: the time component is in the record if and only if Ltime or Lmicroseconds
\* is set, and then once; it is HH:MM:SS followed by the six-digit microsecond
\* part if and only if Lmicroseconds is set.
C9_TimeImpliedByMicroseconds ==
    last.wrote =>
        /\ Count(last.segs, OrderTime)
             = IF Has(last.flag, Ltime \cup Lmicroseconds) THEN 1 ELSE 0
        /\ Has(last.flag, Ltime \cup Lmicroseconds) =>
             LET s == Text(last, TheSeg(last.segs, OrderTime))
             IN IF Has(last.flag, Lmicroseconds)
                THEN /\ Len(s) = 15
                     /\ IsClock(SubSeq(s, 1, 8))
                     /\ IsMicro(SubSeq(s, 9, 15))
                ELSE IsClock(s)

\* Lmicroseconds without Ltime: the record carries HH:MM:SS.NNNNNN
C9_Witness ==
    /\ last.wrote
    /\ last.flag \cap (Ltime \cup Lmicroseconds) = Lmicroseconds
    /\ Count(last.segs, OrderTime) = 1
    /\ Len(Text(last, TheSeg(last.segs, OrderTime))) = 15

-----------------------------------------------------------------------------
(* C10 *)

RECURSIVE BaseName(_)
\* the file name without its directories: what follows the last '/'
BaseName(file) ==
    IF \E i \in 1..Len(file) : file[i] = "/"
    THEN BaseName(Tail(file))
    ELSE file

\* C10: the call path is in the record once when Lshortfile or Llongfile is set;
\* it is the file name without directories whenever Lshortfile is set, also
\* together with Llongfile, the whole path only when Llongfile is set alone;
\* ':' and the line number follow.
C10_ShortfileWins ==
    last.wrote =>
        /\ Count(last.segs, OrderPath)
             = IF Has(last.flag, Lshortfile \cup Llongfile) THEN 1 ELSE 0
        /\ Has(last.flag, Lshortfile \cup Llongfile) =>
             Text(last, TheSeg(last.segs, OrderPath))
               = (IF Has(last.flag, Lshortfile) THEN BaseName(last.file) ELSE last.file)
                 \o <<":">> \o itoaLoop(last.line, -1, <<>>)

\* both path flags set, and the path of the record is the bare file name
C10_Witness ==
    /\ last.wrote
    /\ Lshortfile \cup Llongfile \subseteq last.flag
    /\ BaseName(last.file) # last.file
    /\ Count(last.segs, OrderPath) = 1
    /\ Len(Text(last, TheSeg(last.segs, OrderPath))) = Len(BaseName(last.file)) + 3

-----------------------------------------------------------------------------
(* C3 *)

\* the call recorded in last' handed its record to every sink of its logger, once
RecordWritten ==
    \A k \in SinkIds :
        sinks'[k] = IF k \in Range(output[last'.l])
                    THEN Append(sinks[k], last'.bytes) ELSE sinks[k]

\* C3: with Trace < Debug < Info < Warn < Error < Panic < Fatal, a leveled print
\* method called by a single caller writes a record to the sink if and only if
\* the severity of the call is at or above the threshold of the logger; a call
\* below the threshold writes nothing and changes no logger state.
C3_ThresholdGate ==
    [][(ops' # ops /\ last'.op = "Print") =>
          /\ last'.lv >= level[last'.l] => RecordWritten
          /\ last'.lv < level[last'.l] =>
                UNCHANGED <<sinks, level, flag, prefix, name, output, order, heap,
                            buf, mu>>]_vars

\* an Info call under the threshold Warn wrote nothing, after a call at or
\* above the threshold of that moment had written its record
C3_Witness ==
    /\ last.op = "Print"
    /\ last.lv = InfoLevel /\ last.thresh = WarnLevel
    /\ ~last.wrote
    /\ Len(sinks["b1"]) = 1

-----------------------------------------------------------------------------
(* C4 *)

\* C4: when the threshold of the logger is Discard, set by New or by SetLevel,
\* no leveled print method of any severity writes a record to the sink.
C4_DiscardWritesNothing ==
    (last.op = "Print" /\ last.thresh = Discard) => ~last.wrote

-----------------------------------------------------------------------------
(* C6 *)

\* C6: immediately after child := parent.Extend() with no options every
\* configuration value of the child equals the parent's: level threshold, flag
\* set, prefix, order sequence, output sink and display name.
C6_ChildEqualsParent ==
    (last.op = "Extend" /\ last.arg = <<FALSE>>) =>
        /\ level["child"] = level["parent"]
        /\ flag["child"] = flag["parent"]
        /\ prefix["child"] = prefix["parent"]
        /\ Order("child") = Order("parent")
        /\ output["child"] = output["parent"]
        /\ name["child"] = name["parent"]

-----------------------------------------------------------------------------
(* C7 *)

SetterOps == {"SetOrder", "SetFlag", "AddFlag", "SubFlag", "SetPrefix", "SetLevel",
              "SetName", "SetOutput"}

\* what the getters of l return
Getters(l) == <<output[l], level[l], name[l], prefix[l], Order(l), flag[l]>>

\* C7: once the child exists, a setter call on the child leaves every value the
\* parent's getters return unchanged, and a setter call on the parent leaves the
\* child's unchanged.
C7_SettersAreLocal ==
    [][(ops' # ops /\ last'.op \in SetterOps /\ "child" \in made) =>
          \A l \in Loggers \ {last'.l} : Getters(l)' = Getters(l)]_vars

-----------------------------------------------------------------------------
(* C8 *)

\* C8: after SetOrder(o1..on) returns, the order of the logger is exactly
\* o1..on whatever order was configured before, and a print that follows at
\* once on that logger is laid out by o1..on only.
C8_SetOrderReplaces ==
    [][/\ (ops' # ops /\ last'.op = "SetOrder") =>
             Elems(heap', order'[last'.l]) = last'.arg
       /\ (ops' # ops /\ last.op = "SetOrder" /\ last'.op = "Print"
             /\ last'.l = last.l /\ last'.wrote) =>
             /\ last'.order = last.arg
             /\ FieldSeq(last'.segs) = Layout(last'.flag, last.arg)]_vars

\* SetOrder wrote a shorter list over a longer one, in the same backing array
C8_Witness ==
    /\ last.op = "SetOrder"
    /\ order[last.l].len > 0
    /\ order[last.l].len < Cap(heap, order[last.l])
    /\ Order(last.l) = last.arg

-----------------------------------------------------------------------------
(* C5 *)

\* thread t is between its buffer reset and its sink write
InPass(t) == pc[t] \in {"order", "default", "write"}

\* the complete record of the call c
CompleteRecord(c) ==
    formatPass(c.flag, c.order, c.prefix, c.lv, c.msg, c.file, c.line, c.now).buf

\* C5: for concurrent print calls on one logger, in every interleaving, also
\* those in which a call releases the lock for the caller resolution, a thread
\* between its buffer reset and its sink write holds the lock, so that no other
\* call writes the scratch buffer meanwhile, and the bytes a call hands to the
\* sink are the complete record of that call.
C5_RecordsAreWhole ==
    /\ \A t \in Threads : InPass(t) => mu["parent"] = t
    /\ \A t, u \in Threads : (InPass(t) /\ InPass(u)) => t = u
    /\ (last.op = "Print" /\ last.wrote) => last.bytes = CompleteRecord(last)

\* a call handed over its record, with the path in it, while another call was
\* out of the lock for its caller resolution and a record was written before
C5_Witness ==
    /\ last.op = "Print" /\ last.wrote /\ last.line > 0
    /\ Len(sinks["b1"]) = 2
    /\ sinks["b1"][1] # sinks["b1"][2]
    /\ \E t \in Threads : pc[t] = "relock"

-----------------------------------------------------------------------------
(* SpecLine: one leveled call, Sprintln or Sprintf form, with an empty or a  *)
(* non-empty text, on a logger of any order list                             *)

\* the flag sets of SpecLine: two header fields, the prefix, the message colour
LineFlags == SUBSET (Ldate \cup Llevel \cup Lmsgprefix \cup Lmsgcolor)

\* the texts handed to a leveled method: none, and "m"
TextInputs == {<<>>, msgM}

InitLine ==
    /\ \E f \in LineFlags, p \in PrefixInputs, o \in OrderLists :
          New(InfoLevel, f, p, <<>>, o)
    /\ InitRest

PrintLine ==
    /\ ops = 0
    /\ \E form \in {"ln", "f"}, text \in TextInputs, c \in CallerInputs :
          LevelPrint("parent", WarnLevel, form, text, c)

NextLine == PrintLine

SpecLine == InitLine /\ [][NextLine]_vars

-----------------------------------------------------------------------------
(* C11 *)

\* the number of newline bytes of s
Newlines(s) == Cardinality({i \in 1..Len(s) : s[i] = "\n"})

\* s has no newline but, possibly, one at its very end
OwnLine(s) == \A i \in 1..(Len(s) - 1) : s[i] # "\n"

\* C11: every record a leveled call hands to the sink is exactly one line: its
\* last byte is a newline and, for a message with no newline of its own or only
\* one trailing newline, the record holds no other newline; for the empty
\* message, every flag set and every order list.
C11_RecordIsOneLine ==
    (last.op = "Print" /\ last.wrote) =>
        /\ Len(last.bytes) > 0
        /\ last.bytes[Len(last.bytes)] = "\n"
        /\ OwnLine(last.msg) => Newlines(last.bytes) = 1

-----------------------------------------------------------------------------
(* C12 *)

\* the first sink of the writer of logger l: the one every Write call reaches
FirstSink(l) == output[l][1]

\* C12: a Fatal or Fatalf call on a logger of any threshold performs the sink
\* write attempt and then terminates the process, whether the write succeeded
\* or failed; the process never terminates unless the write attempt of a Fatal
\* call has been made.
C12_FatalWritesThenExits ==
    [][ops' # ops =>
          /\ (last'.op = "Print" /\ last'.lv = FatalLevel) =>
                /\ last'.wrote
                /\ sinks'[FirstSink(last'.l)]
                     = Append(sinks[FirstSink(last'.l)], last'.bytes)
                /\ exited'
          /\ exited' =>
                /\ last'.op = "Print" /\ last'.lv = FatalLevel /\ last'.wrote
                /\ sinks'[FirstSink(last'.l)] # sinks[FirstSink(last'.l)]]_vars

\* a Fatal call under the highest threshold ended the process after a write
\* that failed
C12_Witness ==
    /\ exited
    /\ last.op = "Print" /\ last.lv = FatalLevel /\ last.thresh = FatalLevel
    /\ last.err
    /\ Len(sinks["bad"]) = 1

-----------------------------------------------------------------------------
(* C13 *)

\* C13: a Panic or Panicf call raises a panic that carries the rendered
\* message, after the sink write attempt was made and whatever its outcome, for
\* every threshold of the logger.
C13_PanicAlwaysPanics ==
    (last.op = "Print" /\ last.lv = PanicLevel) =>
        /\ last.wrote
        /\ last.panicked
        /\ last.pval = last.msg

-----------------------------------------------------------------------------
(* C14 *)

\* C14: each Out call invokes the Write of the logger's writer exactly once,
\* with the full contents of the scratch buffer: the first sink receives the
\* buffer once and no sink receives anything else or anything twice; Out
\* returns an error if and only if that write failed, that is, reached a sink
\* whose Write fails; and the call, failed or not, leaves level, flag, prefix,
\* order, output and name unchanged.
C14_OneWriteErrSurfaced ==
    [][(ops' # ops /\ last'.op = "Print" /\ last'.called) =>
          /\ last'.wrote
          /\ last'.bytes = buf'[last'.l]
          /\ sinks'[FirstSink(last'.l)]
               = Append(sinks[FirstSink(last'.l)], buf'[last'.l])
          /\ \A k \in SinkIds :
                sinks'[k] \in {sinks[k], Append(sinks[k], buf'[last'.l])}
          /\ last'.err <=> \E k \in FailingSinks : sinks'[k] # sinks[k]
          /\ UNCHANGED <<level, flag, prefix, name, output, order, heap>>]_vars

\* a call whose write failed returned the error, after an earlier call on the
\* same logger had written its record to a healthy sink
C14_Witness ==
    /\ last.op = "Print" /\ last.called /\ last.err
    /\ last.lv = ErrorLevel
    /\ Len(sinks["bad"]) = 1
    /\ Len(sinks["b1"]) = 1

-----------------------------------------------------------------------------
(* SpecGate: leveled calls of several threads on the parent logger, each     *)
(* reading the threshold without the lock before it enters Out, and SetLevel *)
(* calls in between                                                          *)

InitGate ==
    /\ \E o \in {<<>>, <<OrderMsg>>} : New(InfoLevel, Llevel, prefixP, <<>>, o)
    /\ InitRest

NextGate ==
    \/ \E t \in Threads, lv \in {InfoLevel, ErrorLevel} : Begin(t, lv)
    \/ \E t \in Threads : Lock(t)
    \/ \E t \in Threads : ResetBuf(t)
    \/ \E t \in Threads : FormatOrder(t)
    \/ \E t \in Threads : FormatDefault(t)
    \/ \E t \in Threads : WriteBuf(t)
    \/ \E lv \in {InfoLevel, ErrorLevel} : SetLevel("parent", lv)

SpecGate == InitGate /\ [][NextGate]_vars

-----------------------------------------------------------------------------
(* C15 *)

\* C15: the reads of the threshold by the leveled methods are serialized with
\* SetLevel: once a SetLevel(L) call has returned, no leveled call writes a
\* record of a severity below L, also when that call began before SetLevel did.
\* SetLevel holds the lock from its write to its return, so the threshold in
\* force at a write is the L of the last SetLevel that returned.
C15_ThresholdSerialized ==
    [][sinks' # sinks => last'.lv >= level[last'.l]]_vars

-----------------------------------------------------------------------------
(* SpecOut: loggers built with no, one or several OOutput options, a child   *)
(* extended with or without an OOutput option, SetOutput and prints          *)

optB1B2 == [w1 |-> "b1", w |-> <<"b2">>]
optB2 == [w1 |-> "b2", w |-> <<>>]
optNil == [w1 |-> "nil", w |-> <<>>]
optB1Bad == [w1 |-> "b1", w |-> <<"bad">>]

\* the OOutput options given to New: none; b1; b1 and b2 in one option; nil;
\* b1 and b2 in two options
OutputOptions == {<<>>, <<optB1>>, <<optB1B2>>, <<optNil>>, <<optB1, optB2>>}

\* the arguments given to SetOutput
SetOutputArgs == {optB2, optB1B2, optNil, optB1Bad}

InitOut ==
    /\ \E outs \in OutputOptions :
          /\ NewWith(InfoLevel, Llevel, <<>>, <<>>, <<>>, outs)
          /\ last = Did("New", "parent", outs)
    /\ sinks = emptySinks
    /\ pc = idle
    /\ tl = noLocals
    /\ clock = 0
    /\ exited = FALSE
    /\ ops = 0

NextOut ==
    \/ \E l \in Loggers, a \in SetOutputArgs : SetOutput(l, a.w1, a.w)
    \/ ExtendOutput("parent", "b3", <<>>)
    \/ Extend("parent", FALSE)
    \/ \E l \in Loggers, c \in CallerInputs : LevelPrint(l, WarnLevel, "ln", msgM, c)

SpecOut == InitOut /\ [][NextOut]_vars

-----------------------------------------------------------------------------
(* C16 *)

\* the sinks named by the arguments w1, w... of OOutput or SetOutput, a nil
\* writer standing for standard error
SinksOf(args) == {IF x = "nil" THEN "stderr" ELSE x : x \in Range(args)}

\* the sinks given to a list of OOutput options
Given(opts) == UNION {SinksOf(<<o.w1>> \o o.w) : o \in Range(opts)}

\* the sinks attached to logger l
Attached(l) == Range(output[l])

-----------------------------------------------------------------------------
(* SpecExt: child := parent.Extend() by one thread, statement by statement   *)
(* and without the lock, as Extend takes none, while another thread runs     *)
(* parent.SetFlag(..); parent.SetPrefix(..); parent.SetOrder(..)             *)

\* the thread that calls Extend
Extender == 1

\* son := new(Log)
ExtNew ==
    /\ pc[Extender] = "idle"
    /\ ~exited
    /\ "child" \notin made
    /\ pc' = [pc EXCEPT ![Extender] = "son.output"]
    /\ UNCHANGED <<level, flag, prefix, name, output, order, heap, buf, mu, made,
                   opt, sinks, tl, clock, exited, ops, last>>

\* son.output = parent.output
ExtOutput ==
    /\ pc[Extender] = "son.output"
    /\ output' = [output EXCEPT !["child"] = output["parent"]]
    /\ pc' = [pc EXCEPT ![Extender] = "son.level"]
    /\ UNCHANGED <<level, flag, prefix, name, order, heap, buf, mu, made,
                   opt, sinks, tl, clock, exited, ops, last>>

\* son.level = parent.level
ExtLevel ==
    /\ pc[Extender] = "son.level"
    /\ level' = [level EXCEPT !["child"] = level["parent"]]
    /\ pc' = [pc EXCEPT ![Extender] = "son.flag"]
    /\ UNCHANGED <<flag, prefix, name, output, order, heap, buf, mu, made,
                   opt, sinks, tl, clock, exited, ops, last>>

\* son.flag = parent.flag
ExtFlag ==
    /\ pc[Extender] = "son.flag"
    /\ flag' = [flag EXCEPT !["child"] = flag["parent"]]
    /\ pc' = [pc EXCEPT ![Extender] = "son.prefix"]
    /\ UNCHANGED <<level, prefix, name, output, order, heap, buf, mu, made,
                   opt, sinks, tl, clock, exited, ops, last>>

\* son.prefix = parent.prefix
ExtPrefix ==
    /\ pc[Extender] = "son.prefix"
    /\ prefix' = [prefix EXCEPT !["child"] = prefix["parent"]]
    /\ pc' = [pc EXCEPT ![Extender] = "make"]
    /\ UNCHANGED <<level, flag, name, output, order, heap, buf, mu, made,
                   opt, sinks, tl, clock, exited, ops, last>>

\* son.order = make([]logOrder, len(parent.order))
ExtMake ==
    /\ pc[Extender] = "make"
    /\ LET n == order["parent"].len
           fresh == FreshArr(order, opt)
           ord == [order EXCEPT !["child"] =
                      IF n = 0 THEN nilSlice ELSE [arr |-> fresh, len |-> n]]
       IN /\ order' = ord
          /\ heap' = IF n = 0 THEN heap ELSE [heap EXCEPT ![fresh] = Zeros(n)]
    /\ pc' = [pc EXCEPT ![Extender] = "copy"]
    /\ UNCHANGED <<level, flag, prefix, name, output, buf, mu, made,
                   opt, sinks, tl, clock, exited, ops, last>>

\* copy(son.order, parent.order): min(len(son.order), len(parent.order)) entries
ExtCopy ==
    /\ pc[Extender] = "copy"
    /\ LET src == Order("parent")
           dst == order["child"]
           n == IF dst.len < Len(src) THEN dst.len ELSE Len(src)
       IN heap' = IF n = 0 THEN heap
                  ELSE [heap EXCEPT ![dst.arr] =
                           SubSeq(src, 1, n) \o SubSeq(@, n + 1, Len(@))]
    /\ pc' = [pc EXCEPT ![Extender] = "return"]
    /\ UNCHANGED <<level, flag, prefix, name, output, order, buf, mu, made,
                   opt, sinks, tl, clock, exited, ops, last>>

\* return son
ExtReturn ==
    /\ pc[Extender] = "return"
    /\ made' = made \cup {"child"}
    /\ last' = Did("Extend", "parent", <<FALSE>>)
    /\ pc' = [pc EXCEPT ![Extender] = "idle"]
    /\ UNCHANGED <<level, flag, prefix, name, output, order, heap, buf, mu,
                   opt, sinks, tl, clock, exited, ops>>

\* the configurations the parent goes through, in this sequence, as the other
\* thread runs its three setters
ParentStages ==
    << [flag |-> Llevel, prefix |-> prefixP, order |-> <<OrderDate, OrderLevel>>],
       [flag |-> Llevel \cup Ldate, prefix |-> prefixP,
        order |-> <<OrderDate, OrderLevel>>],
       [flag |-> Llevel \cup Ldate, prefix |-> <<"Q">>,
        order |-> <<OrderDate, OrderLevel>>],
       [flag |-> Llevel \cup Ldate, prefix |-> <<"Q">>, order |-> <<OrderMsg>>] >>

\* the configuration of logger l that the setters of SpecExt change
Stage(l) == [flag |-> flag[l], prefix |-> prefix[l], order |-> Order(l)]

InitExt ==
    /\ \E lv \in AllLevels, n \in {<<>>, nameG} :
          New(lv, ParentStages[1].flag, ParentStages[1].prefix, n,
              ParentStages[1].order)
    /\ InitRest

NextExt ==
    \/ ExtNew
    \/ ExtOutput
    \/ ExtLevel
    \/ ExtFlag
    \/ ExtPrefix
    \/ ExtMake
    \/ ExtCopy
    \/ ExtReturn
    \/ Stage("parent") = ParentStages[1] /\ SetFlag("parent", ParentStages[2].flag)
    \/ Stage("parent") = ParentStages[2] /\ SetPrefix("parent", ParentStages[3].prefix)
    \/ Stage("parent") = ParentStages[3] /\ SetOrder("parent", ParentStages[4].order)

SpecExt == InitExt /\ [][NextExt]_vars

-----------------------------------------------------------------------------
(* C17 *)

\* C17: the configuration of the child produced by parent.Extend() is the
\* configuration the parent had at one single instant, also when setters run on
\* the parent while Extend runs: the child never holds a combination of values
\* that the parent never held at the same time.
C17_ExtendIsSnapshot ==
    "child" \in made =>
        /\ \E i \in 1..Len(ParentStages) : Stage("child") = ParentStages[i]
        /\ level["child"] = level["parent"]
        /\ output["child"] = output["parent"]

-----------------------------------------------------------------------------
(* C18 *)

\* C18: in an Out call that releases the lock for the caller resolution, the
\* record is formatted from the configuration read before the release: the UTC
\* decision, the decision to resolve the caller and the selection of the header
\* fields use one flag value, also when a setter changes the flag set while the
\* lock is released.  The header fields of a record are selected by the flag
\* set in force at its write, the lock being held from the buffer reset on; so
\* the time of the record is in UTC exactly when that flag set has LUTC, and
\* the caller was resolved exactly when that flag set has a path flag.
C18_OneFlagValuePerRecord ==
    [][sinks' # sinks =>
          /\ (last'.now.loc = "UTC") <=> Has(flag[last'.l], LUTC)
          /\ (last'.file # <<>>) <=> wantsCaller(flag[last'.l])]_vars

-----------------------------------------------------------------------------
(* C19 *)

\* the length the buffer of call c had when the formatter of its i-th segment
\* returned: the next segment begins right after it, and after the last
\* segment only the closing newline of the record follows
BufLenAfter(c, i) ==
    IF i < Len(c.segs) THEN c.segs[i + 1].from - 1 ELSE Len(c.bytes) - 1

\* C19: each header formatter that emits its field leaves the buffer ending in
\* a space, and appends a separator space if and only if the buffer does not
\* already end in one after the field: never two spaces of its own in a row, and
\* no extra space after a level label or a prefix that ends in a space.
C19_OneSeparator ==
    last.wrote =>
        \A i \in 1..Len(last.segs) :
            last.segs[i].field \in HeaderFields =>
                LET e == last.segs[i].to
                    n == BufLenAfter(last, i)
                IN /\ e >= 1
                   /\ last.bytes[n] = " "
                   /\ n = IF last.bytes[e] = " " THEN e ELSE e + 1

\* the label "WARN " and the prefix "P " got no separator, the date got one
C19_Witness ==
    /\ last.wrote
    /\ last.prefix = prefixSp
    /\ \E i \in 1..(Len(last.segs) - 1) :
          /\ last.segs[i].field = OrderLevel
          /\ last.segs[i + 1].from = last.segs[i].to + 1
    /\ \E j \in 1..(Len(last.segs) - 1) :
          /\ last.segs[j].field = OrderPrefix
          /\ last.segs[j + 1].from = last.segs[j].to + 1
    /\ \E k \in 1..(Len(last.segs) - 1) :
          /\ last.segs[k].field = OrderDate
          /\ last.segs[k + 1].from = last.segs[k].to + 2

-----------------------------------------------------------------------------
(* SpecItoa: itoa applied once to a buffer, a number and a width *)

\* the numbers given to itoa: every one up to MaxItoaNum, and numbers of four
\* to ten digits, the largest being the largest 32-bit int
ItoaNums == (0..MaxItoaNum) \cup {999, 1000, 2022, 99999, 100000, 123456, 999999,
                                  1000000, 1234567, 2147483647}

\* the widths given to itoa
ItoaWidths == -1..6

\* the buffers given to itoa: empty, and "x:"
ItoaBufs == {<<>>, <<"x", ":">>}

InitItoa ==
    /\ New(InfoLevel, {}, <<>>, <<>>, <<>>)
    /\ sinks = emptySinks
    /\ pc = idle
    /\ tl = noLocals
    /\ clock = 0
    /\ exited = FALSE
    /\ ops = 0
    /\ \E num \in ItoaNums, wid \in ItoaWidths, b \in ItoaBufs :
          last = [noCall EXCEPT !.op = "itoa", !.arg = <<num, wid>>, !.bytes = b]

\* itoa(&l.buf, num, wid) on a buffer that holds last.bytes
Itoa ==
    /\ ops = 0
    /\ buf' = [buf EXCEPT !["parent"] = itoa(last.bytes, last.arg[1], last.arg[2])]
    /\ last' = [last EXCEPT !.called = TRUE]
    /\ ops' = ops + 1
    /\ UNCHANGED <<level, flag, prefix, name, output, order, heap, mu, made, opt,
                   sinks, pc, tl, clock, exited>>

NextItoa == Itoa

SpecItoa == InitItoa /\ [][NextItoa]_vars

-----------------------------------------------------------------------------
(* C20 *)

RECURSIVE Decimal(_)
\* the decimal digits of n, the most significant first
Decimal(n) ==
    IF n < 10 THEN <<DigitChars[n + 1]>>
    ELSE Append(Decimal(n \div 10), DigitChars[(n % 10) + 1])

Max(a, b) == IF a >= b THEN a ELSE b

\* C20: for every non-negative num and every width wid from -1 to 6, itoa
\* appends to the buffer the decimal digits of num left-padded with '0' to a
\* length of max(wid, number of digits of num) and leaves the bytes already in
\* the buffer unchanged; no digit is dropped when num has more digits than wid,
\* and a negative or zero wid adds no padding.
C20_ItoaPadsNeverTruncates ==
    (last.op = "itoa" /\ last.called) =>
        LET num == last.arg[1]
            wid == last.arg[2]
            old == last.bytes
            new == buf["parent"]
            d == Decimal(num)
            n == Max(wid, Len(d))
        IN /\ Len(new) = Len(old) + n
           /\ SubSeq(new, 1, Len(old)) = old
           /\ SubSeq(new, Len(new) - Len(d) + 1, Len(new)) = d
           /\ \A i \in (Len(old) + 1)..(Len(new) - Len(d)) : new[i] = "0"
           /\ wid <= 0 => Len(new) = Len(old) + Len(d)

\* a number of seven digits written with the width 6 kept all its digits, after
\* the bytes the buffer already held
C20_Witness ==
    /\ last.op = "itoa" /\ last.called
    /\ last.arg = <<1234567, 6>>
    /\ buf["parent"] = <<"x", ":", "1", "2", "3", "4", "5", "6", "7">>

-----------------------------------------------------------------------------
(* SpecPath: one Out call from call sites of several paths, on a logger     *)
(* that prints the call site                                                 *)

\* the paths runtime.Caller reports: "/a/b.go", "/b.go", "b.go", "a/b.go",
\* "/a/", "/", "a/b/c.go"
PathInputs == {<<"/", "a", "/", "b", ".", "g", "o">>,
               <<"/", "b", ".", "g", "o">>,
               <<"b", ".", "g", "o">>,
               <<"a", "/", "b", ".", "g", "o">>,
               <<"/", "a", "/">>,
               <<"/">>,
               <<"a", "/", "b", "/", "c", ".", "g", "o">>}

\* the line numbers runtime.Caller reports
PathLines == {7, 12}

\* what runtime.Caller reports, or that it reports nothing
PathCallers == {[ok |-> TRUE, file |-> f, line |-> n] : f \in PathInputs, n \in PathLines}
               \cup {[ok |-> FALSE, file |-> <<>>, line |-> 0]}

\* flag sets that print the call site
PathFlags == {Lshortfile, Llongfile, Lshortfile \cup Llongfile, LstdFlags}

\* order lists that place the call site
PathOrders == {<<>>, <<OrderPath>>, <<OrderMsg, OrderPath>>}

InitPath ==
    /\ \E f \in PathFlags, o \in PathOrders : New(InfoLevel, f, <<>>, <<>>, o)
    /\ InitRest

OutPath ==
    /\ ops = 0
    /\ \E c \in PathCallers : Out("parent", WarnLevel, msgM, c, "Out")
    /\ ops' = ops + 1
    /\ UNCHANGED <<level, flag, prefix, name, output, order, heap, mu, made, opt,
                   pc, tl, clock, exited>>

NextPath == OutPath

SpecPath == InitPath /\ [][NextPath]_vars

-----------------------------------------------------------------------------
(* C21 *)

\* C21: with Lshortfile set, for every call-site path the file name in the
\* record is the part of the path after its last '/', the whole path when it
\* has no '/', also when the only '/' is the first character of the path; ':'
\* and the line number follow it.
C21_ShortNameAfterLastSlash ==
    (last.wrote /\ Has(last.flag, Lshortfile)) =>
        /\ Count(last.segs, OrderPath) = 1
        /\ Text(last, TheSeg(last.segs, OrderPath))
             = BaseName(last.file) \o <<":">> \o Decimal(last.line)

-----------------------------------------------------------------------------
(* SpecFault: one Out call at a level with or without a label, on loggers   *)
(* whose first header field can be empty                                     *)

\* levels given to Out: one without an entry in levelMap, two with a label
FaultLevels == {Discard, WarnLevel, FatalLevel}

\* flag sets whose first field is the prefix, the level label, or another one
FaultFlags == {{}, Lmsgprefix, Llevel, Lmsgprefix \cup Llevel,
               Ldate \cup Lmsgprefix \cup Llevel, LstdFlags \cup Lmsgprefix}

\* order lists that start with the prefix, the level, the message, another
\* field, or nothing
FaultOrders == {<<>>, <<OrderPrefix>>, <<OrderLevel>>, <<OrderMsg>>,
                <<OrderPrefix, OrderLevel>>, <<OrderPath, OrderPrefix>>}

InitFault ==
    /\ \E f \in FaultFlags, p \in PrefixInputs, o \in FaultOrders :
          New(InfoLevel, f, p, <<>>, o)
    /\ InitRest

OutFault ==
    /\ ops = 0
    /\ \E lv \in FaultLevels, c \in CallerInputs : Out("parent", lv, msgM, c, "Out")
    /\ ops' = ops + 1
    /\ UNCHANGED <<level, flag, prefix, name, output, order, heap, mu, made, opt,
                   pc, tl, clock, exited>>

NextFault == OutFault

SpecFault == InitFault /\ [][NextFault]_vars

-----------------------------------------------------------------------------
(* C22 *)

\* C22: an Out call never reads before the start of an empty scratch buffer:
\* for every flag set, order list, level and prefix, also an empty prefix with
\* Lmsgprefix as the first field and a level without a label as the first
\* field, the call ends without a runtime fault and its record is written.
C22_NoFaultOnEmptyBuffer ==
    (last.op = "Out" /\ last.called) =>
        /\ ~last.fault
        /\ last.wrote
        /\ sinks["b1"] = <<last.bytes>>

-----------------------------------------------------------------------------
(* SpecStamp: leveled calls of several threads on a parent logger whose      *)
(* records start with the time of day, each call reading the clock before it *)
(* takes the lock                                                            *)

InitStamp ==
    /\ \E f \in {Ltime, Ltime \cup Lshortfile} : New(InfoLevel, f, <<>>, <<>>, <<>>)
    /\ InitRest

NextStamp ==
    \/ \E t \in Threads, lv \in {InfoLevel, ErrorLevel} : Begin(t, lv)
    \/ \E t \in Threads : Lock(t)
    \/ \E t \in Threads, c \in CallerInputs : ResolveCaller(t, c)
    \/ \E t \in Threads : Relock(t)
    \/ \E t \in Threads : ResetBuf(t)
    \/ \E t \in Threads : FormatOrder(t)
    \/ \E t \in Threads : FormatDefault(t)
    \/ \E t \in Threads : WriteBuf(t)

SpecStamp == InitStamp /\ [][NextStamp]_vars

-----------------------------------------------------------------------------
(* C23 *)

\* the value of a decimal digit character
DigitVal(ch) == CHOOSE d \in 0..9 : DigitChars[d + 1] = ch

\* the number written in two digit characters
TwoDigits(rec, i) == 10 * DigitVal(rec[i]) + DigitVal(rec[i + 1])

\* the time of day a record carries in its first field "HH:MM:SS", in seconds
Stamp(rec) == 3600 * TwoDigits(rec, 1) + 60 * TwoDigits(rec, 4) + TwoDigits(rec, 7)

\* C23: the records of concurrent print calls on one logger reach the sink in
\* non-decreasing order of the timestamps they carry: a record whose time was
\* read earlier is never written after a record whose time was read later.
C23_SinkOrderedByTimestamp ==
    \A i, j \in 1..Len(sinks["b1"]) :
        i < j => Stamp(sinks["b1"][i]) <= Stamp(sinks["b1"][j])

====
